---- MODULE Spec2Model ----
(***************************************************************************)
(* Model of src/lib.rs: the MinMaxGame trait, its two implementations      *)
(* (TicTacToeGame, Connect4Game) and min_max_game_strategy (best_pick,     *)
(* minimax, next).                                                         *)
(*                                                                         *)
(* Option<T> is modelled as a sequence of length <= 1: None is <<>> and    *)
(* Some(x) is <<x>>.  Arrays are functions over 0-based index ranges, as   *)
(* in the source.  A game value is a record [kind, board]; kind plays the  *)
(* role of the generic parameter G of minimax and next.                    *)
(***************************************************************************)
EXTENDS Integers, Sequences, FiniteSets

VARIABLES
    game,        \* the board held by the caller (a MinMaxGame value)
    player,      \* whose turn it is: TRUE maximises (O), FALSE minimises (X)
    pc,          \* position of the caller in its play loop
    result,      \* what the last call of minimax returned
    start,       \* the board the current run of the play loop started from
    iterations   \* completed iterations of the play loop (or drops made)

vars == <<game, player, pc, result, start, iterations>>

None == <<>>

Some(x) == <<x>>

is_some(o) == o # None

is_none(o) == o = None

unwrap_or(o, d) == IF o = None THEN d ELSE o[1]

(***************************************************************************)
(* TicTacToeGame                                                           *)
(***************************************************************************)

TicTacToeDefault == [kind |-> "TicTacToe", board |-> [r \in 0..2 |-> [c \in 0..2 |-> None]]]

\* TicTacToeLine without the test of board[0][2], board[1][1], board[2][0].
TicTacToeLineNoAntiDiagonal(board, p) ==
    \/ board[0][0] = p /\ board[1][1] = p /\ board[2][2] = p
    \/ \E i \in 0..2 :
          \/ board[0][i] = p /\ board[1][i] = p /\ board[2][i] = p
          \/ board[i][0] = p /\ board[i][1] = p /\ board[i][2] = p

\* One pass of the for-loop body of TicTacToeGame::finished for one player.
TicTacToeLine(board, p) ==
    \/ board[0][0] = p /\ board[1][1] = p /\ board[2][2] = p
    \/ board[0][2] = p /\ board[1][1] = p /\ board[2][0] = p
    \/ \E i \in 0..2 :
          \/ board[0][i] = p /\ board[1][i] = p /\ board[2][i] = p
          \/ board[i][0] = p /\ board[i][1] = p /\ board[i][2] = p

\* TicTacToeFinished without the final test for a full board.
TicTacToeFinishedNoDraw(board) ==
    IF TicTacToeLine(board, Some(TRUE)) THEN Some(1)
    ELSE IF TicTacToeLine(board, Some(FALSE)) THEN Some(-1)
    ELSE None

TicTacToeFinished(board) ==
    IF TicTacToeLine(board, Some(TRUE)) THEN Some(1)
    ELSE IF TicTacToeLine(board, Some(FALSE)) THEN Some(-1)
    ELSE IF \A i \in 0..8 : is_some(board[i \div 3][i % 3]) THEN Some(0)
    ELSE None

\* TicTacToeMoves scanning the squares column by column.
TicTacToeMovesColumnMajor(board, p) ==
    LET empty == SelectSeq(<<0, 3, 6, 1, 4, 7, 2, 5, 8>>,
                           LAMBDA i : is_none(board[i \div 3][i % 3]))
    IN [k \in 1..Len(empty) |->
          [kind |-> "TicTacToe",
           board |-> [board EXCEPT ![empty[k] \div 3][empty[k] % 3] = Some(p)]]]

\* (0..9).filter(..).map(..).collect(): the successors in scan order.
TicTacToeMoves(board, p) ==
    LET empty == SelectSeq(<<0, 1, 2, 3, 4, 5, 6, 7, 8>>,
                           LAMBDA i : is_none(board[i \div 3][i % 3]))
    IN [k \in 1..Len(empty) |->
          [kind |-> "TicTacToe",
           board |-> [board EXCEPT ![empty[k] \div 3][empty[k] % 3] = Some(p)]]]

(***************************************************************************)
(* Connect4Game                                                            *)
(***************************************************************************)

Connect4Default == [kind |-> "Connect4", board |-> [r \in 0..5 |-> [c \in 0..6 |-> None]]]

\* s.chars().filter_map(..): the squares named by a text, other
\* characters dropped.  A text is a sequence of one-character strings.
Connect4Squares(s) ==
    LET kept == SelectSeq(s, LAMBDA ch : ch \in {" ", "O", "X"})
    IN [k \in 1..Len(kept) |->
          IF kept[k] = " " THEN None
          ELSE IF kept[k] = "O" THEN Some(TRUE)
          ELSE Some(FALSE)]

\* Connect4Game::from_str: rows are read from row 5 down to row 0, a
\* missing square is None.
Connect4FromStr(s) ==
    LET squares == Connect4Squares(s)
    IN [kind |-> "Connect4",
        board |-> [row \in 0..5 |-> [column \in 0..6 |->
                     LET k == (5 - row) * 7 + column + 1
                     IN IF k <= Len(squares) THEN squares[k] ELSE None]]]

\* What an index outside board[0..5][0..6] does to a call: it panics.
\* Distinct from None and from every Some(x).
IndexPanic == <<0, 0>>

saturating_sub(a, b) == IF a >= b THEN a - b ELSE 0

\* One column of vertical_search, from `row` up: `for row in board.iter()`.
RECURSIVE vertical_line(_, _, _, _, _)
vertical_line(board, p, column, row, count) ==
    IF row >= 6 THEN FALSE
    ELSE LET count1 == IF board[row][column] = p THEN count + 1 ELSE 0
         IN IF count1 >= 4 THEN TRUE
            ELSE vertical_line(board, p, column, row + 1, count1)

vertical_search(board, value, p) ==
    IF \E column \in 0..6 : vertical_line(board, p, column, 0, 0)
    THEN Some(value)
    ELSE None

\* One row of horizontal_search, from `column` on: `for square in row.iter()`.
RECURSIVE horizontal_line(_, _, _, _, _)
horizontal_line(board, p, row, column, count) ==
    IF column >= 7 THEN FALSE
    ELSE LET count1 == IF board[row][column] = p THEN count + 1 ELSE 0
         IN IF count1 >= 4 THEN TRUE
            ELSE horizontal_line(board, p, row, column + 1, count1)

horizontal_search(board, value, p) ==
    IF \E row \in 0..5 : horizontal_line(board, p, row, 0, 0)
    THEN Some(value)
    ELSE None

\* The result of the first diagonal, in the order the for loop takes them,
\* whose while loop returns (Some(value)) or panics; None when none does.
FirstOutcome(outcome, diagonals) ==
    IF \A d \in diagonals : outcome[d] = None THEN None
    ELSE outcome[CHOOSE d \in diagonals :
                    /\ outcome[d] # None
                    /\ \A e \in diagonals : e < d => outcome[e] = None]

\* The while loop of north_east_diagonal_search on one diagonal.
RECURSIVE north_east_line(_, _, _, _, _, _)
north_east_line(board, value, p, diagonal, column, count) ==
    IF ~(column < 7 /\ column <= diagonal) THEN None
    ELSE LET row == diagonal - column
         IN IF ~(row \in 0..5 /\ column \in 0..6) THEN IndexPanic
            ELSE LET count1 == IF board[row][column] = p THEN count + 1 ELSE 0
                 IN IF count1 >= 4 THEN Some(value)
                    ELSE north_east_line(board, value, p, diagonal, column + 1, count1)

\* for diagonal in 3..9usize
north_east_diagonal_search(board, value, p) ==
    FirstOutcome([diagonal \in 3..8 |->
                    north_east_line(board, value, p, diagonal,
                                    saturating_sub(diagonal, 5), 0)],
                 3..8)

\* The while loop of north_west_diagonal_search on one diagonal.
RECURSIVE north_west_line(_, _, _, _, _, _)
north_west_line(board, value, p, column, row, count) ==
    IF ~(column < 7 /\ row < 6) THEN None
    ELSE IF ~(row \in 0..5 /\ column \in 0..6) THEN IndexPanic
    ELSE LET count1 == IF board[row][column] = p THEN count + 1 ELSE 0
         IN IF count1 >= 4 THEN Some(value)
            ELSE north_west_line(board, value, p, column + 1, row + 1, count1)

\* north_west_diagonal_search starting at diagonal 4.
north_west_diagonal_search_from_4(board, value, p) ==
    FirstOutcome([diagonal \in 4..8 |->
                    north_west_line(board, value, p,
                                    saturating_sub(diagonal, 5),
                                    saturating_sub(5, diagonal), 0)],
                 4..8)

\* for diagonal in 3..9usize
north_west_diagonal_search(board, value, p) ==
    FirstOutcome([diagonal \in 3..8 |->
                    north_west_line(board, value, p,
                                    saturating_sub(diagonal, 5),
                                    saturating_sub(5, diagonal), 0)],
                 3..8)

or_else(a, b) == IF a # None THEN a ELSE b

\* The body of `for (value, player) in ..` of Connect4Game::finished.
Connect4Search(board, value, p) ==
    or_else(or_else(or_else(vertical_search(board, value, p),
                            horizontal_search(board, value, p)),
                    north_east_diagonal_search(board, value, p)),
            north_west_diagonal_search(board, value, p))

Connect4Finished(board) ==
    LET o == Connect4Search(board, 1, Some(TRUE))
    IN IF o # None THEN o
       ELSE LET x == Connect4Search(board, -1, Some(FALSE))
            IN IF x # None THEN x
               ELSE IF \A i \in 0..41 : is_some(board[i \div 7][i % 7])
                    THEN Some(0)
                    ELSE None

Connect4ColumnOrder == <<3, 2, 4, 1, 5, 0, 6>>

\* Connect4FreeRow taking the rows from 0 up to `row`.
Connect4FreeRowUp(board, column, row) ==
    IF \A r \in 0..row : board[r][column] # None THEN None
    ELSE Some(CHOOSE r \in 0..row :
                /\ board[r][column] = None
                /\ \A q \in 0..(r - 1) : board[q][column] # None)

\* `for row in (0..6).rev()` of Connect4Game::moves from `row` on: the first
\* row met, going from 5 down to 0, whose square in `column` is None.
RECURSIVE Connect4FreeRow(_, _, _)
Connect4FreeRow(board, column, row) ==
    IF row < 0 THEN None
    ELSE IF board[row][column] = None THEN Some(row)
    ELSE Connect4FreeRow(board, column, row - 1)

RECURSIVE Connect4Collect(_, _, _)
Connect4Collect(board, p, k) ==
    IF k > Len(Connect4ColumnOrder) THEN <<>>
    ELSE LET column == Connect4ColumnOrder[k]
             row == Connect4FreeRow(board, column, 5)
         IN IF row # None
            THEN <<[kind |-> "Connect4",
                    board |-> [board EXCEPT ![row[1]][column] = Some(p)]]>>
                 \o Connect4Collect(board, p, k + 1)
            ELSE Connect4Collect(board, p, k + 1)

Connect4Moves(board, p) == Connect4Collect(board, p, 1)

(***************************************************************************)
(* trait MinMaxGame: dispatch on the implementing type                     *)
(***************************************************************************)

finished(g) ==
    IF g.kind = "TicTacToe" THEN TicTacToeFinished(g.board)
    ELSE Connect4Finished(g.board)

moves(g, p) ==
    IF g.kind = "TicTacToe" THEN TicTacToeMoves(g.board, p)
    ELSE Connect4Moves(g.board, p)

(***************************************************************************)
(* min_max_game_strategy                                                   *)
(***************************************************************************)

\* best_pick that takes the larger whatever `maximise` says.
best_pick_max(a, b, maximise) ==
    IF a = None /\ b = None THEN None
    ELSE IF b = None THEN Some(a[1])
    ELSE IF a = None THEN Some(b[1])
    ELSE Some(IF a[1] >= b[1] THEN a[1] ELSE b[1])

\* best_pick that takes the smaller whatever `maximise` says.
best_pick_min(a, b, maximise) ==
    IF a = None /\ b = None THEN None
    ELSE IF b = None THEN Some(a[1])
    ELSE IF a = None THEN Some(b[1])
    ELSE Some(IF a[1] <= b[1] THEN a[1] ELSE b[1])

best_pick(a, b, maximise) ==
    IF a = None /\ b = None THEN None
    ELSE IF b = None THEN Some(a[1])
    ELSE IF a = None THEN Some(b[1])
    ELSE Some(IF maximise
              THEN (IF a[1] >= b[1] THEN a[1] ELSE b[1])
              ELSE (IF a[1] <= b[1] THEN a[1] ELSE b[1]))

\* minimax returns [score, best_move, depth]: the pair of the source plus
\* the number of minimax calls nested below this one (the stack it needs).
RECURSIVE minimax(_, _, _, _)

\* minimax_iteration with `if next_value == value` in place of
\* `if old_value != value`: a later move of equal value replaces the best.
minimax_iteration_last(l, ms, i, p) ==
    IF l.over \/ i > Len(ms) THEN [l EXCEPT !.over = TRUE]
    ELSE
      LET move == ms[i]
          sub == minimax(move, l.alpha, l.beta, ~p)
          next_value == sub.score
          value == best_pick(l.value, Some(next_value), p)
          best_move == IF Some(next_value) = value THEN Some(move) ELSE l.best_move
          alpha == IF p THEN best_pick(l.alpha, value, p) ELSE l.alpha
          beta == IF p THEN l.beta ELSE best_pick(l.beta, value, p)
      IN [next_value |-> next_value,
          value |-> value,
          best_move |-> best_move,
          alpha |-> alpha,
          beta |-> beta,
          depth |-> IF sub.depth >= l.depth THEN sub.depth + 1 ELSE l.depth,
          over |-> alpha # None /\ beta # None /\ alpha[1] >= beta[1]]

\* minimax_iteration with `if old_value.is_some() && old_value != value`: the
\* first move is never recorded as the best.
minimax_iteration_skip_first(l, ms, i, p) ==
    IF l.over \/ i > Len(ms) THEN [l EXCEPT !.over = TRUE]
    ELSE
      LET move == ms[i]
          sub == minimax(move, l.alpha, l.beta, ~p)
          next_value == sub.score
          old_value == l.value
          value == best_pick(l.value, Some(next_value), p)
          best_move == IF old_value # None /\ old_value # value
                       THEN Some(move) ELSE l.best_move
          alpha == IF p THEN best_pick(l.alpha, value, p) ELSE l.alpha
          beta == IF p THEN l.beta ELSE best_pick(l.beta, value, p)
      IN [next_value |-> next_value,
          value |-> value,
          best_move |-> best_move,
          alpha |-> alpha,
          beta |-> beta,
          depth |-> IF sub.depth >= l.depth THEN sub.depth + 1 ELSE l.depth,
          over |-> alpha # None /\ beta # None /\ alpha[1] >= beta[1]]

\* One iteration of `for r#move in moves` for the i-th move.  `l` holds the
\* loop's locals before it, and l.over says the loop is over (moves used up,
\* or `break` taken); the result holds them after it.
minimax_iteration(l, ms, i, p) ==
    IF l.over \/ i > Len(ms) THEN [l EXCEPT !.over = TRUE]
    ELSE
      LET move == ms[i]
          sub == minimax(move, l.alpha, l.beta, ~p)
          next_value == sub.score
          old_value == l.value
          value == best_pick(l.value, Some(next_value), p)
          best_move == IF old_value # value THEN Some(move) ELSE l.best_move
          alpha == IF p THEN best_pick(l.alpha, value, p) ELSE l.alpha
          beta == IF p THEN l.beta ELSE best_pick(l.beta, value, p)
      IN [next_value |-> next_value,
          value |-> value,
          best_move |-> best_move,
          alpha |-> alpha,
          beta |-> beta,
          depth |-> IF sub.depth >= l.depth THEN sub.depth + 1 ELSE l.depth,
          over |-> alpha # None /\ beta # None /\ alpha[1] >= beta[1]]

\* The for loop runs its iterations in order, l1 first; a board of either
\* game has at most nine moves, so l9 holds the locals after the loop, and
\* the last of the sequence is what the function returns.
minimax(g, alpha, beta, p) ==
    LET f == finished(g)
        ms == moves(g, p)
        l0 == [next_value |-> 0, value |-> None, best_move |-> None,
               alpha |-> alpha, beta |-> beta, depth |-> 0, over |-> FALSE]
        l1 == minimax_iteration(l0, ms, 1, p)
        l2 == minimax_iteration(l1, ms, 2, p)
        l3 == minimax_iteration(l2, ms, 3, p)
        l4 == minimax_iteration(l3, ms, 4, p)
        l5 == minimax_iteration(l4, ms, 5, p)
        l6 == minimax_iteration(l5, ms, 6, p)
        l7 == minimax_iteration(l6, ms, 7, p)
        l8 == minimax_iteration(l7, ms, 8, p)
        l9 == minimax_iteration(l8, ms, 9, p)
    IN IF f # None
       THEN [depth |-> 0, score |-> f[1], best_move |-> None]
       ELSE <<l1, l2, l3, l4, l5, l6, l7, l8,
              [depth |-> l9.depth, score |-> unwrap_or(l9.value, 0),
               best_move |-> l9.best_move]>>[9]

next(g, p) == minimax(g, None, None, p).best_move

(***************************************************************************)
(* Bounds and the boards the callers start from                            *)
(***************************************************************************)

\* Squares taken back from the full connect-four board of the tests.
MaxBlank == 3

\* Calls of moves made one after the other on a connect-four board.
MaxDrops == 1

\* connect_4_tests::finished, "No winner": a full board without four in a row.
Connect4FullText ==
    <<"<", "O", "O", "O", "X", "X", "X", "O", "|",
           "X", "X", "X", "O", "O", "O", "X", "|",
           "O", "O", "O", "X", "X", "X", "O", "|",
           "X", "X", "X", "O", "O", "O", "X", "|",
           "O", "O", "O", "X", "X", "X", "O", "|",
           "X", "X", "X", "O", "O", "O", "X", ">">>

\* The full board with the last `blank[c]` squares played in column c taken
\* back (moves fills a column from row 5 down to row 0).
Connect4NearFull ==
    LET full == Connect4FromStr(Connect4FullText).board
        Sum(b) == b[0] + b[1] + b[2] + b[3] + b[4] + b[5] + b[6]
    IN {[kind |-> "Connect4",
         board |-> [row \in 0..5 |-> [column \in 0..6 |->
                      IF row < blank[column] THEN None ELSE full[row][column]]]] :
        blank \in {b \in [0..6 -> 0..2] : Sum(b) <= MaxBlank}}

\* The four directions of a line, as (row step, column step).
Connect4Directions == {<<1, 0>>, <<0, 1>>, <<1, 1>>, <<1, -1>>}

\* Every way to lay four squares in a line on the 6x7 board.
Connect4Segments ==
    {sg \in [r : 0..5, c : 0..6, d : Connect4Directions] :
        /\ sg.r + 3 * sg.d[1] \in 0..5
        /\ sg.c + 3 * sg.d[2] \in 0..6}

\* An otherwise empty board holding one line of `owner`: the four squares of
\* segment sg, except square `hole` (1..4, 0 for none), which is empty when
\* `filler` is None and the opponent's otherwise; plus, when `extra`, the
\* fifth square of the line if the board has it.
Connect4Lined(sg, owner, hole, filler, extra) ==
    [kind |-> "Connect4",
     board |-> [row \in 0..5 |-> [column \in 0..6 |->
        IF \E k \in 0..3 : /\ row = sg.r + k * sg.d[1]
                           /\ column = sg.c + k * sg.d[2]
                           /\ k + 1 # hole
        THEN Some(owner)
        ELSE IF /\ hole # 0
                /\ row = sg.r + (hole - 1) * sg.d[1]
                /\ column = sg.c + (hole - 1) * sg.d[2]
        THEN filler
        ELSE IF /\ extra
                /\ row = sg.r + 4 * sg.d[1]
                /\ column = sg.c + 4 * sg.d[2]
        THEN Some(owner)
        ELSE None]]]

\* The empty board, the near-full boards, and for every segment and owner:
\* the whole line, the line of five, and the line with one square missing or
\* held by the opponent.
Connect4Seeds ==
    {Connect4Default} \cup Connect4NearFull \cup
    {Connect4Lined(sg, owner, 0, None, extra) :
        sg \in Connect4Segments, owner \in BOOLEAN, extra \in BOOLEAN} \cup
    {Connect4Lined(sg, owner, hole, IF opp THEN Some(~owner) ELSE None, FALSE) :
        sg \in Connect4Segments, owner \in BOOLEAN, hole \in 1..4,
        opp \in BOOLEAN}

(***************************************************************************)
(* Exhaustive minimax without pruning, for tic-tac-toe (the reference the  *)
(* search is compared with).  The value of a board is finished() when that *)
(* is a score, and otherwise the maximum (player TRUE) or minimum (player  *)
(* FALSE) of the values of ALL its successors with the other player to     *)
(* move.  Every position below the board is evaluated; a position that     *)
(* several move orders lead to is evaluated once and its value kept in     *)
(* `memo`, a table indexed by the nine squares of a board.                 *)
(***************************************************************************)

SquareIndex(sq) == IF sq = None THEN 1 ELSE IF sq[1] THEN 2 ELSE 3

\* The table with no value in it.
RECURSIVE EmptyTable(_)
EmptyTable(n) == IF n = 0 THEN None ELSE LET t == EmptyTable(n - 1) IN <<t, t, t>>

Lookup(memo, b) ==
    memo[SquareIndex(b[0][0])][SquareIndex(b[0][1])][SquareIndex(b[0][2])]
        [SquareIndex(b[1][0])][SquareIndex(b[1][1])][SquareIndex(b[1][2])]
        [SquareIndex(b[2][0])][SquareIndex(b[2][1])][SquareIndex(b[2][2])]

Store(memo, b, v) ==
    [memo EXCEPT
        ![SquareIndex(b[0][0])][SquareIndex(b[0][1])][SquareIndex(b[0][2])]
         [SquareIndex(b[1][0])][SquareIndex(b[1][1])][SquareIndex(b[1][2])]
         [SquareIndex(b[2][0])][SquareIndex(b[2][1])][SquareIndex(b[2][2])] = Some(v)]

Best(a, b, p) == IF p THEN (IF a >= b THEN a ELSE b) ELSE (IF a <= b THEN a ELSE b)

\* The best of the values vs[i..] for p.
RECURSIVE BestOf(_, _, _)
BestOf(vs, i, p) ==
    IF i = Len(vs) THEN vs[i] ELSE Best(vs[i], BestOf(vs, i + 1, p), p)

\* ExhaustiveAt(g, p, memo) = [value of g with p to move, values of its
\* successors in the order of moves(g, p) when it looked at them, memo
\* extended].
RECURSIVE ExhaustiveAt(_, _, _)

\* e = [memo, values, best] after the successors ms[1..i-1] of a board with
\* p to move: their values in order and the best of them for p.  The result
\* adds the value of ms[i] when there is an i-th successor.
ExhaustiveNext(e, ms, i, p) ==
    IF i > Len(ms) THEN e
    ELSE LET r == ExhaustiveAt(ms[i], ~p, e.memo)
         IN [memo |-> r.memo,
             values |-> Append(e.values, r.value),
             best |-> IF e.values = <<>> THEN r.value ELSE Best(e.best, r.value, p)]

ExhaustiveAt(g, p, memo) ==
    LET hit == Lookup(memo, g.board)
        f == finished(g)
        ms == moves(g, p)
        e0 == [memo |-> memo, values |-> <<>>, best |-> 0]
        e1 == ExhaustiveNext(e0, ms, 1, p)
        e2 == ExhaustiveNext(e1, ms, 2, p)
        e3 == ExhaustiveNext(e2, ms, 3, p)
        e4 == ExhaustiveNext(e3, ms, 4, p)
        e5 == ExhaustiveNext(e4, ms, 5, p)
        e6 == ExhaustiveNext(e5, ms, 6, p)
        e7 == ExhaustiveNext(e6, ms, 7, p)
        e8 == ExhaustiveNext(e7, ms, 8, p)
        e9 == ExhaustiveNext(e8, ms, 9, p)
    IN IF hit # None THEN [memo |-> memo, values |-> <<>>, value |-> hit[1]]
       ELSE IF f # None THEN [memo |-> memo, values |-> <<>>, value |-> f[1]]
       ELSE <<e1, e2, e3, e4, e5, e6, e7, e8,
              [memo |-> Store(e9.memo, g.board, e9.best),
               values |-> e9.values,
               value |-> e9.best]>>[9]

\* The values of the successors of g for p, in the order of moves(g, p).
ExhaustiveMoves(g, p) == ExhaustiveAt(g, p, EmptyTable(9)).values

Exhaustive(g, p) == ExhaustiveAt(g, p, EmptyTable(9)).value

Empties(g) ==
    IF g.kind = "TicTacToe"
    THEN Cardinality({i \in 0..8 : g.board[i \div 3][i % 3] = None})
    ELSE Cardinality({i \in 0..41 : g.board[i \div 7][i % 7] = None})

(***************************************************************************)
(* The caller: the play loop of connect_4_tests::complete_game              *)
(*     loop { match next(&game, player) { Some(g) => game = g,             *)
(*                                        None => break }                  *)
(*            player = !player; }                                          *)
(* and, between runs of that loop, a move chosen by somebody else.         *)
(***************************************************************************)

NoResult == [depth |-> 0, score |-> 0, best_move |-> None]

Init ==
    /\ game \in {TicTacToeDefault} \cup Connect4NearFull
    /\ player \in BOOLEAN
    /\ pc = "next"
    /\ result = NoResult
    /\ start = game
    /\ iterations = 0

\* The call next(&game, player), that is minimax(game, None, None, player).
CallNext ==
    /\ pc = "next"
    /\ result' = minimax(game, None, None, player)
    /\ pc' = "match"
    /\ UNCHANGED <<game, player, start, iterations>>

\* MatchSome without `player = !player`.
MatchSomeSamePlayer ==
    /\ pc = "match"
    /\ result.best_move # None
    /\ game' = result.best_move[1]
    /\ iterations' = iterations + 1
    /\ result' = NoResult
    /\ pc' = "next"
    /\ UNCHANGED <<player, start>>

\* Some(g) => game = g; then player = !player and the loop goes round (the
\* value next returned is dropped).
MatchSome ==
    /\ pc = "match"
    /\ result.best_move # None
    /\ game' = result.best_move[1]
    /\ player' = ~player
    /\ iterations' = iterations + 1
    /\ result' = NoResult
    /\ pc' = "next"
    /\ UNCHANGED start

\* None => break.
MatchNone ==
    /\ pc = "match"
    /\ result.best_move = None
    /\ pc' = "done"
    /\ UNCHANGED <<game, player, result, start, iterations>>

\* Any legal move of the player to move, made on a board whose game has not
\* ended: one element of game.moves(player).  The play loop starts afresh
\* from the board it gives.
ApplyMove ==
    /\ pc = "next"
    /\ finished(game) = None
    /\ LET ms == moves(game, player)
       IN \E i \in 1..Len(ms) :
             /\ game' = ms[i]
             /\ start' = ms[i]
    /\ player' = ~player
    /\ iterations' = 0
    /\ UNCHANGED <<pc, result>>

Next == CallNext \/ MatchSome \/ MatchNone \/ ApplyMove

Spec == Init /\ [][Next]_vars

(***************************************************************************)
(* Connect-four boards under repeated calls of moves                       *)
(***************************************************************************)

Connect4Init ==
    /\ game \in Connect4Seeds
    /\ player \in BOOLEAN
    /\ pc = "moves"
    /\ result = NoResult
    /\ start = game
    /\ iterations = 0

\* game = one element of game.moves(player), whatever finished() says.
Connect4Drop ==
    /\ pc = "moves"
    /\ iterations < MaxDrops
    /\ LET ms == moves(game, player)
       IN \E i \in 1..Len(ms) : game' = ms[i]
    /\ player' = ~player
    /\ iterations' = iterations + 1
    /\ UNCHANGED <<pc, result, start>>

Connect4Spec == Connect4Init /\ [][Connect4Drop]_vars

(***************************************************************************)
(* Properties                                                              *)
(***************************************************************************)

TicTacToe == game.kind = "TicTacToe"

Connect4 == game.kind = "Connect4"

\* The score that says `p` has won.
Win(p) == IF p THEN 1 ELSE -1

\* C1: on every tic-tac-toe board reached from the empty board by alternating
\* moves, with the player whose turn it is, the score minimax(board, None,
\* None, player) returns is the value of the exhaustive minimax without
\* pruning of that board and player.
ValueEqualsExhaustive ==
    (TicTacToe /\ pc = "match") => result.score = Exhaustive(game, player)

\* A board whose second successor, not its first, first brings the best
\* value: the search has pruned below the first and still reports the value.
ValueEqualsExhaustiveWitness ==
    /\ TicTacToe /\ pc = "match" /\ finished(game) = None
    /\ Empties(game) = 5
    /\ result.score = 1
    /\ LET vs == ExhaustiveMoves(game, player)
       IN Len(vs) >= 2 /\ vs[1] # result.score /\ vs[2] = result.score

\* The first index of vs holding the best value of vs for p.
FirstBest(vs, p) ==
    LET best == BestOf(vs, 1, p)
    IN CHOOSE i \in 1..Len(vs) :
          /\ vs[i] = best
          /\ \A j \in 1..(i - 1) : vs[j] # best

\* C2: on every reached tic-tac-toe board whose game has not ended, the
\* successor next returns is the first element of moves(player), in the
\* order moves gives them, whose exhaustive value with the opponent to move
\* is the exhaustive value of the board; a later one of the same value does
\* not replace it.
FirstOptimalMove ==
    (TicTacToe /\ pc = "match" /\ finished(game) = None) =>
        LET ms == moves(game, player)
            e == ExhaustiveAt(game, player, EmptyTable(9))
        IN /\ BestOf(e.values, 1, player) = e.value
           /\ result.best_move = Some(ms[FirstBest(e.values, player)])

\* The first best successor is not the first successor, and a later
\* successor has the same value.
FirstOptimalMoveWitness ==
    /\ TicTacToe /\ pc = "match" /\ finished(game) = None
    /\ Empties(game) <= 5
    /\ LET vs == ExhaustiveMoves(game, player)
           k == FirstBest(vs, player)
       IN /\ k > 1
          /\ \E j \in (k + 1)..Len(vs) : vs[j] = vs[k]
          /\ result.best_move = Some(moves(game, player)[k])

\* Some successor of the board ends the game with a win of the mover.
HasFinishingMove ==
    LET ms == moves(game, player)
    IN \E i \in 1..Len(ms) : finished(ms[i]) = Some(Win(player))

\* C3 as stated: on every reached tic-tac-toe board whose game has not ended
\* and on which some successor is an immediate win of the player to move,
\* next returns a successor that is itself an immediate win.
FinishingMoveTaken ==
    (TicTacToe /\ pc = "match" /\ finished(game) = None /\ HasFinishingMove) =>
        /\ result.best_move # None
        /\ finished(result.best_move[1]) = Some(Win(player))

\* C3 as amended: on such a board next returns the first successor, in the
\* order of moves, whose exhaustive value is a win of the player to move; it
\* is an immediate win exactly when no successor before the first immediate
\* win already has that value.
WinningMoveTaken ==
    (TicTacToe /\ pc = "match" /\ finished(game) = None /\ HasFinishingMove) =>
        LET ms == moves(game, player)
            vs == ExhaustiveMoves(game, player)
            first == CHOOSE i \in 1..Len(ms) :
                        /\ finished(ms[i]) = Some(Win(player))
                        /\ \A j \in 1..(i - 1) : finished(ms[j]) # Some(Win(player))
        IN /\ result.score = Win(player)
           /\ result.best_move # None
           /\ \E k \in 1..first :
                 /\ result.best_move[1] = ms[k]
                 /\ vs[k] = Win(player)
                 /\ \A j \in 1..(k - 1) : vs[j] # Win(player)
           /\ (finished(result.best_move[1]) = Some(Win(player)))
                 <=> (\A j \in 1..(first - 1) : vs[j] # Win(player))

\* An immediate win is there and next returns an earlier successor that wins
\* only later.
WinningMoveTakenWitness ==
    /\ TicTacToe /\ pc = "match" /\ finished(game) = None /\ HasFinishingMove
    /\ result.best_move # None
    /\ finished(result.best_move[1]) = None
    /\ Exhaustive(result.best_move[1], ~player) = Win(player)

\* C4: for a board of either game and either player, next returns None
\* exactly when finished() is a score, and otherwise returns one of the
\* elements of moves(player).
NextNoneIffFinished ==
    pc = "match" =>
        /\ (result.best_move = None) <=> (finished(game) # None)
        /\ finished(game) = None =>
              LET ms == moves(game, player)
              IN \E i \in 1..Len(ms) : result.best_move = Some(ms[i])

\* next has been called on a connect-four board with three empty squares
\* whose game has not ended, and has returned a successor.
NextNoneIffFinishedWitness ==
    /\ pc = "match" /\ Connect4
    /\ Empties(game) = 3
    /\ finished(game) = None
    /\ result.best_move # None

\* C5: the play loop started on the empty tic-tac-toe board, with either
\* player to begin, stops on a board whose finished() is Some(0); and the
\* score minimax returns for the empty board is 0.
DrawFromEmpty ==
    /\ (start = TicTacToeDefault /\ pc = "done") => finished(game) = Some(0)
    /\ (game = TicTacToeDefault /\ pc = "match") => result.score = 0

\* The loop started on the empty board has stopped.
DrawFromEmptyWitness ==
    /\ start = TicTacToeDefault /\ pc = "done"
    /\ iterations = 9
    /\ ~player

\* The eight lines of the tic-tac-toe board, as sets of <<row, column>>.
TicTacToeLines ==
    {{<<r, 0>>, <<r, 1>>, <<r, 2>>} : r \in 0..2} \cup
    {{<<0, c>>, <<1, c>>, <<2, c>>} : c \in 0..2} \cup
    {{<<0, 0>>, <<1, 1>>, <<2, 2>>}, {<<0, 2>>, <<1, 1>>, <<2, 0>>}}

\* Player p holds every square of one of the eight lines of the board.
Fills(p) ==
    \E ln \in TicTacToeLines : \A sq \in ln : game.board[sq[1]][sq[2]] = Some(p)

Full == Empties(game) = 0

\* C6: on every tic-tac-toe board reached by alternating play, finished() is
\* Some(1) exactly when O fills one of the eight lines, Some(-1) exactly when
\* X fills one, Some(0) exactly when no line is filled and the nine squares
\* are taken, and None otherwise.
FinishedIsLineOrFull ==
    TicTacToe =>
        LET f == finished(game)
        IN /\ (f = Some(1)) <=> Fills(TRUE)
           /\ (f = Some(-1)) <=> Fills(FALSE)
           /\ (f = Some(0)) <=> (~Fills(TRUE) /\ ~Fills(FALSE) /\ Full)
           /\ (f = None) <=> (~Fills(TRUE) /\ ~Fills(FALSE) /\ ~Full)

\* X has just taken the diagonal from the top right to the bottom left.
FinishedIsLineOrFullWitness ==
    /\ TicTacToe /\ pc = "next" /\ iterations = 0
    /\ game.board[0][2] = Some(FALSE)
    /\ game.board[1][1] = Some(FALSE)
    /\ game.board[2][0] = Some(FALSE)
    /\ finished(game) = Some(-1)

\* The empty squares of a tic-tac-toe board, as numbers 3 * row + column.
EmptySquares(board) == {i \in 0..8 : board[i \div 3][i % 3] = None}

\* The k-th empty square in row-major order.
EmptySquare(board, k) ==
    LET empty == EmptySquares(board)
    IN CHOOSE i \in empty : Cardinality({j \in empty : j < i}) = k - 1

\* C7: on every tic-tac-toe board and for either player p, moves(p) has one
\* element per empty square, the k-th element being the board with the k-th
\* empty square in row-major order set to p's mark and every other square
\* as in the parent.
MovesFillEachEmptySquare ==
    TicTacToe =>
        \A p \in BOOLEAN :
            LET ms == moves(game, p)
            IN /\ Len(ms) = Cardinality(EmptySquares(game.board))
               /\ \A k \in 1..Len(ms) :
                     LET filled == EmptySquare(game.board, k)
                     IN /\ ms[k].kind = "TicTacToe"
                        /\ \A i \in 0..8 :
                              ms[k].board[i \div 3][i % 3] =
                                 IF i = filled
                                 THEN Some(p)
                                 ELSE game.board[i \div 3][i % 3]

\* A board made by moves, with the first square taken, the centre free and
\* five squares empty.
MovesFillEachEmptySquareWitness ==
    /\ TicTacToe /\ pc = "next" /\ iterations = 0 /\ start = game
    /\ Empties(game) = 5
    /\ game.board[0][0] # None /\ game.board[0][1] = None
    /\ game.board[1][1] = None /\ game.board[2][0] # None
    /\ Len(moves(game, player)) = 5

\* The columns of a connect-four board that have an empty square.
OpenColumns(board) == {c \in 0..6 : \E r \in 0..5 : board[r][c] = None}

\* The smallest and the largest row index of an empty square of column c.
SmallestEmptyRow(board, c) ==
    CHOOSE r \in 0..5 : board[r][c] = None /\ \A q \in 0..(r - 1) : board[q][c] # None

LargestEmptyRow(board, c) ==
    CHOOSE r \in 0..5 : board[r][c] = None /\ \A q \in (r + 1)..5 : board[q][c] # None

Connect4Dropped(g, p, c, r) ==
    [kind |-> "Connect4", board |-> [g.board EXCEPT ![r][c] = Some(p)]]

\* C8 as stated: on every connect-four board and for either player p,
\* moves(p) has exactly one element for each column with an empty square, the
\* board with p's mark at the smallest row index whose square in that column
\* is empty, and nothing for a column with no empty square.
DropsToSmallestRow ==
    Connect4 =>
        \A p \in BOOLEAN :
            LET ms == moves(game, p)
                open == OpenColumns(game.board)
            IN /\ Len(ms) = Cardinality(open)
               /\ \A c \in open :
                     LET dropped == Connect4Dropped(game, p, c,
                                       SmallestEmptyRow(game.board, c))
                     IN Cardinality({k \in 1..Len(ms) : ms[k] = dropped}) = 1

\* C8 as amended: the same, with p's mark at the largest row index whose
\* square in that column is empty (row 5 is the row a piece comes to rest on
\* in an empty column).
DropsToLargestRow ==
    Connect4 =>
        \A p \in BOOLEAN :
            LET ms == moves(game, p)
                open == OpenColumns(game.board)
            IN /\ Len(ms) = Cardinality(open)
               /\ \A c \in open :
                     LET dropped == Connect4Dropped(game, p, c,
                                       LargestEmptyRow(game.board, c))
                     IN Cardinality({k \in 1..Len(ms) : ms[k] = dropped}) = 1

\* A drop on a board with a full column, into a column whose rows 0 and 1
\* were empty: the mark is in row 1.
DropsToLargestRowWitness ==
    /\ Connect4 /\ pc = "moves" /\ iterations = 1
    /\ Cardinality(OpenColumns(start.board)) < 7
    /\ \E c \in 0..6 :
          /\ start.board[0][c] = None /\ start.board[1][c] = None
          /\ start.board[2][c] # None
          /\ game.board[0][c] = None /\ game.board[1][c] # None

\* Player p holds four squares in a line somewhere on the connect-four board.
HasRun(p) ==
    \E sg \in Connect4Segments :
        \A k \in 0..3 :
            game.board[sg.r + k * sg.d[1]][sg.c + k * sg.d[2]] = Some(p)

\* C9: on every connect-four board finished() indexes no square outside
\* rows 0..5 and columns 0..6, and when at most one player has four in a
\* line it is Some(1) exactly when O has four in a line in a column, a row
\* or a diagonal of either direction, Some(-1) exactly when X has, Some(0)
\* exactly when neither has and the 42 squares are taken, and None otherwise.
Connect4FinishedIsRunOrFull ==
    Connect4 =>
        LET f == finished(game)
            o == HasRun(TRUE)
            x == HasRun(FALSE)
        IN /\ f # IndexPanic
           /\ ~(o /\ x) =>
                 /\ (f = Some(1)) <=> o
                 /\ (f = Some(-1)) <=> x
                 /\ (f = Some(0)) <=> (~o /\ ~x /\ Full)
                 /\ (f = None) <=> (~o /\ ~x /\ ~Full)

\* X has completed the diagonal from board[2][0] to board[5][3], the first
\* one north_west_diagonal_search looks at, by a drop in column 3.
Connect4FinishedIsRunOrFullWitness ==
    /\ Connect4 /\ pc = "moves" /\ iterations = 1
    /\ finished(start) = None
    /\ start.board[5][3] = None
    /\ \A k \in 0..3 : game.board[2 + k][k] = Some(FALSE)
    /\ ~HasRun(TRUE)
    /\ finished(game) = Some(-1)

\* The board `to` is the board `from` with one empty square taken.
OneSquareFilled(from, to) ==
    /\ to.kind = from.kind
    /\ \E r \in DOMAIN from.board : \E c \in DOMAIN from.board[r] :
          /\ from.board[r][c] = None
          /\ to.board[r][c] # None
          /\ to.board = [from.board EXCEPT ![r][c] = to.board[r][c]]

\* C10: the play loop started on a board of either game with k empty squares
\* (`start`), with either player to begin, has gone round at most k times
\* whenever it is looked at, each round taking exactly one empty square; it
\* stops only on a board with finished() # None; and the calls of minimax on
\* a board nest no deeper than the number of its empty squares.
PlayLoopBounded ==
    /\ iterations + Empties(game) = Empties(start)
    /\ iterations <= Empties(start)
    /\ (pc = "match" /\ result.best_move # None) =>
          OneSquareFilled(game, result.best_move[1])
    /\ pc = "match" => result.depth <= Empties(game)
    /\ pc = "done" => finished(game) # None

\* The loop has gone round three times on a connect-four board that had
\* three empty squares, and has stopped.
PlayLoopBoundedWitness ==
    /\ Connect4 /\ pc = "done"
    /\ Empties(start) = 3
    /\ iterations = 3

====
